---- MODULE Spec2Model ----
(***************************************************************************)
(* Window management of the PortfolioOS desktop shell: the registry        *)
(* (activeWindows), the layer stack (windowLayerOrder and the z-index it   *)
(* derives), the close cooldown (recentlyClosedWindows), the header drag   *)
(* and resize-handle gestures, and the timers the handlers leave behind.   *)
(* Every handler runs to completion on the browser's event loop, so each   *)
(* handler and each timer or animation-frame callback is one action.       *)
(***************************************************************************)
EXTENDS Integers, Sequences, FiniteSets, TLC

\* ---------------------------------------------------------------- bounds
\* Timers that can be pending at once.
MaxTimers == 2
\* Confirmation popups that can be stacked on the page at once.
MaxPopups == 1
\* Notes the notebook specification keeps in storage at once.
MaxNotes == 2
\* Stones a side places on the game board before the model stops the game.
MaxStones == 6
\* The cache limit this.maxCacheSize (5 MB) in the size units of the model,
\* and the largest cacheMetrics.totalSize at which the model still caches.
maxCacheSize == 4
MaxTotalSize == 8
\* Pixels a window travels in the drag threshold specification.
ClickRange == 8
\* Viewport of the browser window (window.innerWidth / innerHeight).
InnerWidth == 1280
InnerHeight == 800

\* ------------------------------------------------------ program constants
baseZIndex == 100000
zIndexStep == 10
dragZIndex == 10000
dragThreshold == 3
minWidth == 300
minHeight == 200
taskbarHeight == 40
\* delays of the timers, in milliseconds
cooldownDelay == 200
minimizeDelay == 400
showDelay == 50
removeDelay == 300
autoSaveDelay == 1000
aiMoveDelay == 500
restartDelay == 2000
\* the game board has boardSize * boardSize cells; winLength stones in a row win
boardSize == 8
winLength == 5

\* ------------------------------------------------------------- the windows
\* Static application windows: present in the page from the start, found by
\* their data-window attribute.
\* "about" is the notebook, "skills" the sticker browser.
Apps == {"about", "skills"}
StaticOrder == <<"about", "skills">>
\* Elements created on demand.  A name stands for one element; it is used
\* again for a new element only when the old one is gone entirely.
Notes == {"note-window-1"}
Stickers == {"sticker-1"}
Wallpapers == {"wallpaper-1", "wallpaper-2"}
Dynamic == Notes \cup Stickers \cup Wallpapers
Windows == Apps \cup Dynamic
\* Elements with the class "window".
WindowClass == Apps \cup Notes \cup Wallpapers

NoValue == "null"
None == [win |-> NoValue]

\* data-window attribute of the element (getAttribute gives null when absent)
dataWindow(w) == IF w \in Apps \cup Notes THEN w ELSE NoValue
AppNames == {dataWindow(w) : w \in Windows}

getWindowId(w) ==
    CASE w \in Notes -> w
      [] w \in Apps -> w
      [] w \in Stickers -> "sticker-" \o w
      [] OTHER -> "window-" \o w

WindowIds == {getWindowId(w) : w \in Windows}

VARIABLES
    activeWindows,          \* this.activeWindows: set of data-window keys
    windowLayerOrder,       \* this.windowLayerOrder: ids, back to front
    recentlyClosedWindows,  \* this.recentlyClosedWindows
    dom,                    \* created elements attached to the page, in order
    active,                 \* elements carrying the class "active"
    focused,                \* elements carrying the class "focused"
    dragging,               \* elements carrying the class "dragging"
    resizing,               \* elements carrying the class "resizing"
    zIndex,                 \* inline z-index of each element (0: none set)
    geom,                   \* left, top, width, height of each element
    popups,                 \* confirmation popups on the page, per note window
    timers,                 \* pending setTimeout callbacks, in the order set
    drag,                   \* header gesture whose listeners are registered
    resize,                 \* resize gesture whose listeners are registered
    lastOp,                 \* the handler that ran last, and its target
    cooledDown,             \* applications a cooldown timer has taken out of recentlyClosedWindows
    stickyNotes,            \* localStorage 'sticky-notes': the stored notes, in stored order
    noteData,               \* noteWindow.noteData.id of each note window (0: none)
    isPinned,               \* noteWindow.isPinned of each note window
    editor,                 \* content of the editor of each note window
    game,                   \* the five-in-a-row game: stones on the board and flags
    svgCache,               \* this.svgCache: the entries, oldest time stamp first
    totalSize,              \* this.cacheMetrics.totalSize
    scope                   \* the scenario of this run

page == <<activeWindows, windowLayerOrder, recentlyClosedWindows, dom, active,
          focused, zIndex, popups>>
wm == <<page, timers>>
vars == <<activeWindows, windowLayerOrder, recentlyClosedWindows, dom, active,
          focused, dragging, resizing, zIndex, geom, popups, timers, drag,
          resize, lastOp, cooledDown, stickyNotes, noteData, isPinned, editor,
          game, svgCache, totalSize, scope>>
noteVars == <<stickyNotes, noteData, isPinned, editor>>
extVars == <<game, svgCache, totalSize>>

\* ---------------------------------------------------------------- helpers
Max(a, b) == IF a >= b THEN a ELSE b
Min(a, b) == IF a <= b THEN a ELSE b
Abs(a) == IF a < 0 THEN -a ELSE a

SeqToSet(s) == {s[i] : i \in 1..Len(s)}
IndexOf(s, e) == IF e \in SeqToSet(s)
                 THEN CHOOSE i \in 1..Len(s) : s[i] = e /\ \A j \in 1..(i-1) : s[j] # e
                 ELSE 0
\* Array.prototype.splice(indexOf(e), 1): removes the first occurrence only
RemoveFirst(s, e) ==
    LET i == IndexOf(s, e)
    IN IF i = 0 THEN s ELSE SubSeq(s, 1, i-1) \o SubSeq(s, i+1, Len(s))
Count(s, e) == Cardinality({i \in 1..Len(s) : s[i] = e})
Last(s) == s[Len(s)]
NoDuplicates(s) == \A i, j \in 1..Len(s) : i # j => s[i] # s[j]

\* The state the window manager's methods read and write, as one record, so
\* that a handler calling several methods is the composition of their effects.
Cur == [aw |-> activeWindows, order |-> windowLayerOrder,
        rc |-> recentlyClosedWindows, dom |-> dom, active |-> active,
        focused |-> focused, z |-> zIndex, popups |-> popups,
        timers |-> timers]

Commit(s) ==
    /\ activeWindows' = s.aw
    /\ windowLayerOrder' = s.order
    /\ recentlyClosedWindows' = s.rc
    /\ dom' = s.dom
    /\ active' = s.active
    /\ focused' = s.focused
    /\ zIndex' = s.z
    /\ popups' = s.popups
    /\ timers' = s.timers

\* document order of the elements: the static windows, then the created ones
DomSeq(s) == StaticOrder \o s.dom
InDom(s, w) == w \in Apps \/ w \in SeqToSet(s.dom)

\* querySelectorAll('.window.active, .note-editor-window.active,
\*                   .sticker-preview-window'), in document order
Selected(s, w) == InDom(s, w) /\ (w \in Stickers \/ w \in s.active)
allWindows(s) == SelectSeq(DomSeq(s), LAMBDA w : Selected(s, w))

\* querySelectorAll('.window.active')
ActiveWindowClass(s) == SelectSeq(DomSeq(s), LAMBDA w : w \in WindowClass /\ w \in s.active)

\* document.querySelector('.rename-popup, .delete-popup, .remove-note-popup')
AnyPopup(s) == \E n \in Notes : s.popups[n] > 0

\* ------------------------------------------------------------- timers
Timer(kind, target) == [kind |-> kind, target |-> target]
delay(t) ==
    CASE t.kind = "cooldown" -> cooldownDelay
      [] t.kind = "minimize" -> minimizeDelay
      [] t.kind = "show" -> showDelay
      [] t.kind = "remove" -> removeDelay
      [] t.kind = "autosave" -> autoSaveDelay
      [] t.kind = "aiMove" -> aiMoveDelay
      [] t.kind = "restart" -> restartDelay

\* setTimeout(callback, delay(t))
setTimeout(s, t) == [s EXCEPT !.timers = Append(@, t)]

Waiting(t) == t \in SeqToSet(timers)

\* The callback of t can run now: t is pending, and every timer set before
\* it that is still pending has a longer delay (a timer set earlier with the
\* same or a shorter delay expires first).
Expires(t) ==
    /\ Waiting(t)
    /\ \A j \in 1..(IndexOf(timers, t) - 1) : delay(timers[j]) > delay(t)

\* the timer is taken off the list as its callback starts
Expired(s, t) == [s EXCEPT !.timers = RemoveFirst(@, t)]

\* ------------------------------------------------------- the layer stack
\* position (from 0) at which forEach last meets the id of w
LayerIndex(order, w) ==
    LET hits == {i \in 1..Len(order) : order[i] = getWindowId(w)}
    IN CHOOSE i \in hits : \A j \in hits : j <= i

\* mutation: ids of windows that are no longer on screen are kept
recalculateWindowLayers_NoPrune(s) ==
    IF AnyPopup(s)
    THEN s
    ELSE LET all == allWindows(s)
             missing == SelectSeq(all, LAMBDA w : getWindowId(w) \notin SeqToSet(s.order))
             added == [i \in 1..Len(missing) |-> getWindowId(missing[i])]
             newOrder == s.order \o added
         IN [s EXCEPT !.order = newOrder,
                      !.z = [w \in Windows |->
                                IF w \in SeqToSet(all)
                                THEN baseZIndex + (LayerIndex(newOrder, w) - 1) * zIndexStep
                                ELSE s.z[w]]]

recalculateWindowLayers(s) ==
    IF AnyPopup(s)
    THEN s
    ELSE LET all == allWindows(s)
             ids == {getWindowId(w) : w \in SeqToSet(all)}
             kept == SelectSeq(s.order, LAMBDA id : id \in ids)
             missing == SelectSeq(all, LAMBDA w : getWindowId(w) \notin SeqToSet(kept))
             added == [i \in 1..Len(missing) |-> getWindowId(missing[i])]
             newOrder == kept \o added
         IN [s EXCEPT !.order = newOrder,
                      !.z = [w \in Windows |->
                                IF w \in SeqToSet(all)
                                THEN baseZIndex + (LayerIndex(newOrder, w) - 1) * zIndexStep
                                ELSE s.z[w]]]

\* mutation: the id is pushed without being taken out of its old position
bringWindowToFront_PushOnly(s, w) ==
    LET id == getWindowId(w)
        s1 == [s EXCEPT !.active = @ \cup {w}, !.order = Append(@, id)]
        s2 == recalculateWindowLayers(s1)
        others == {v \in Windows : Selected(s2, v) /\ v # w}
    IN [s2 EXCEPT !.focused = (@ \ others) \cup {w}]

bringWindowToFront(s, w) ==
    LET id == getWindowId(w)
        s1 == [s EXCEPT !.active = @ \cup {w},
                        !.order = Append(RemoveFirst(@, id), id)]
        s2 == recalculateWindowLayers(s1)
        others == {v \in Windows : Selected(s2, v) /\ v # w}
    IN [s2 EXCEPT !.focused = (@ \ others) \cup {w}]

\* mutation: the cooldown is not consulted
focusWindow_NoCooldownCheck(s, w) ==
    LET s1 == bringWindowToFront(s, w)
        shown == {v \in WindowClass : InDom(s1, v) /\ v \in s1.active}
    IN [s1 EXCEPT !.focused = (@ \ shown) \cup {w}]

focusWindow(s, w) ==
    IF dataWindow(w) \in s.rc
    THEN s
    ELSE LET s1 == bringWindowToFront(s, w)
             shown == {v \in WindowClass : InDom(s1, v) /\ v \in s1.active}
         IN [s1 EXCEPT !.focused = (@ \ shown) \cup {w}]

closeWindow(s, w) ==
    LET appName == dataWindow(w)
        s1 == [s EXCEPT !.order = RemoveFirst(@, getWindowId(w)),
                        !.aw = @ \ {appName},
                        !.active = @ \ {w}]
        s2 == recalculateWindowLayers(s1)
    IN setTimeout([s2 EXCEPT !.rc = @ \cup {appName}], Timer("cooldown", appName))

RECURSIVE closeEach(_, _)
closeEach(s, ws) ==
    IF ws = <<>> THEN s ELSE closeEach(closeWindow(s, Head(ws)), Tail(ws))

closeAllWindows(s) == closeEach(s, ActiveWindowClass(s))

\* mutation: opening an application that is already open closes it
openWindow_Toggle(s, appName) ==
    IF appName \in s.rc
    THEN s
    ELSE IF appName \in s.aw
         THEN closeWindow(s, appName)
         ELSE focusWindow([s EXCEPT !.aw = @ \cup {appName},
                                    !.active = @ \cup {appName}], appName)

openWindow(s, appName) ==
    IF appName \in s.rc
    THEN s
    ELSE IF appName \in s.aw
         THEN focusWindow(s, appName)
         ELSE focusWindow([s EXCEPT !.aw = @ \cup {appName},
                                    !.active = @ \cup {appName}], appName)

\* ------------------------------------------------------------- geometry
Geom(l, t, w, h) == [left |-> l, top |-> t, width |-> w, height |-> h]
\* sizes the style sheet gives the windows; a static window starts right
\* under the task bar
StaticGeom == Geom(100, 40, 600, 500)
NoteGeom == Geom(100, 40, 600, 500)
WallpaperGeom == Geom(60, 60, 600, 400)
\* Math.random() positions of a sticker preview, after the clamps
StickerSpots == {Geom(0, 60, 400, 400), Geom(200, 60, 400, 400)}

positionNoteWindow(s, g) ==
    LET shownNotes == {n \in Notes : InDom(s, n) /\ n \in s.active}
        offset == Cardinality(shownNotes) * 30
        left0 == Min(450 + offset, InnerWidth - 650)
        top0 == Max(taskbarHeight + 20, 100 + offset)
        left1 == IF left0 > InnerWidth - 650 THEN 50 ELSE left0
        top1 == IF top0 > InnerHeight - 550 THEN taskbarHeight + 20 ELSE top0
    IN [g EXCEPT !.left = left1, !.top = top1]

\* -------------------------------------------------------------- the notes
\* What an editor can hold (innerHTML, trimmed); "" is the empty editor.
Contents == {"", "a"}
NoNote == 0

\* a stored note; id and timestamp are both Date.now() at its creation
Note(id, content, pinned) ==
    [id |-> id, timestamp |-> id, content |-> content, pinned |-> pinned]

\* The notebook state the note methods read and write, as one record.
Nb == [notes |-> stickyNotes, noteData |-> noteData, isPinned |-> isPinned,
       editor |-> editor]

CommitNotes(b) ==
    /\ stickyNotes' = b.notes
    /\ noteData' = b.noteData
    /\ isPinned' = b.isPinned
    /\ editor' = b.editor

\* stickyNotes.findIndex(n => n.id === id), from 1; 0 when there is none
NoteIndex(notes, id) ==
    IF \E i \in 1..Len(notes) : notes[i].id = id
    THEN CHOOSE i \in 1..Len(notes) :
            notes[i].id = id /\ \A j \in 1..(i-1) : notes[j].id # id
    ELSE 0

\* Date.now().  Time stamps are kept up to their order: the new one is
\* later than every time stamp that a stored note still carries.
DateNow(b) ==
    LET taken == {b.notes[i].timestamp : i \in 1..Len(b.notes)} \cup {0}
    IN 1 + CHOOSE t \in taken : \A u \in taken : u <= t

\* Array.prototype.sort((a, b) => b.timestamp - a.timestamp): stable, the
\* newest first
RECURSIVE sortNewestFirst(_)
sortNewestFirst(s) ==
    IF s = <<>> THEN <<>>
    ELSE LET sorted == sortNewestFirst(SubSeq(s, 1, Len(s) - 1))
             x == s[Len(s)]
             k == Cardinality({i \in 1..Len(sorted) : sorted[i].timestamp >= x.timestamp})
         IN SubSeq(sorted, 1, k) \o <<x>> \o SubSeq(sorted, k + 1, Len(sorted))

\* the two groups loadStickyNotes renders
pinnedNotes(notes) == sortNewestFirst(SelectSeq(notes, LAMBDA x : x.pinned))
regularNotes(notes) == sortNewestFirst(SelectSeq(notes, LAMBDA x : ~x.pinned))

\* loadStickyNotes writes the notes back in the order it renders them
loadStickyNotes(b) ==
    [b EXCEPT !.notes = pinnedNotes(@) \o regularNotes(@)]

createNewNoteInStorage(b, content) ==
    [b EXCEPT !.notes = Append(@, Note(DateNow(b), content, FALSE))]

\* mutation: a note that is missing from storage is stored again
autoSaveNote_StoresMissing(b, n) ==
    LET content == b.editor[n]
        noteIndex == NoteIndex(b.notes, b.noteData[n])
    IN IF content = "" /\ b.noteData[n] = NoNote
       THEN b
       ELSE IF noteIndex # 0
       THEN loadStickyNotes(
               [b EXCEPT !.notes[noteIndex].content = content,
                         !.notes[noteIndex].pinned = b.isPinned[n]])
       ELSE loadStickyNotes(
               [b EXCEPT !.notes = Append(@, Note(IF b.noteData[n] # NoNote
                                                   THEN b.noteData[n] ELSE DateNow(b),
                                                   content, b.isPinned[n])),
                         !.noteData[n] = IF @ # NoNote THEN @ ELSE DateNow(b)])

autoSaveNote(b, n) ==
    LET content == b.editor[n]
        noteIndex == NoteIndex(b.notes, b.noteData[n])
    IN IF content = "" /\ b.noteData[n] = NoNote
       THEN b
       ELSE IF b.noteData[n] # NoNote
       THEN IF noteIndex # 0
            THEN loadStickyNotes(
                    [b EXCEPT !.notes[noteIndex].content = content,
                              !.notes[noteIndex].pinned = b.isPinned[n]])
            ELSE loadStickyNotes(b)
       ELSE loadStickyNotes(
               [b EXCEPT !.notes = Append(@, Note(DateNow(b), content, b.isPinned[n])),
                         !.noteData[n] = DateNow(b)])

removeStickyNote(b, noteId) ==
    IF NoteIndex(b.notes, noteId) # 0
    THEN loadStickyNotes([b EXCEPT !.notes = SelectSeq(@, LAMBDA x : x.id # noteId)])
    ELSE b

\* the note fields a note window is created with
noteWindowData(b, n, note) ==
    [b EXCEPT !.noteData[n] = note.id,
              !.isPinned[n] = note.pinned,
              !.editor[n] = note.content]

\* ------------------------------------------------------ five-in-a-row game
\* The board is kept by its stone counts: the claims about the game concern
\* how many stones each side has placed, not where they lie.
NewGame ==
    [player |-> 0, ai |-> 0, isPlayerTurn |-> TRUE, gameOver |-> FALSE,
     isThinking |-> FALSE]

\* ----------------------------------------------------------- initial state

\* the window manager right after construction
Constructed ==
    [aw |-> {}, order |-> <<>>, rc |-> {}, dom |-> <<>>, active |-> {},
     focused |-> {}, z |-> [w \in Windows |-> 0], popups |-> [n \in Notes |-> 0],
     timers |-> <<>>]

\* the state is s, no gesture is in progress and no timer is pending
StartsAs(s) ==
    /\ activeWindows = s.aw
    /\ windowLayerOrder = s.order
    /\ recentlyClosedWindows = s.rc
    /\ dom = s.dom
    /\ active = s.active
    /\ focused = s.focused
    /\ zIndex = s.z
    /\ popups = s.popups
    /\ timers = s.timers
    /\ dragging = {}
    /\ resizing = {}
    /\ drag = None
    /\ resize = None
    /\ lastOp = <<"init", NoValue>>
    /\ cooledDown = {}
    /\ stickyNotes = <<>>
    /\ game = NewGame
    /\ svgCache = <<>>
    /\ totalSize = 0
    /\ noteData = [n \in Notes |-> NoNote]
    /\ isPinned = [n \in Notes |-> FALSE]
    /\ editor = [n \in Notes |-> ""]


\* the model has room for k more timers
TimerRoom(k) == Len(timers) + k <= MaxTimers

\* the mouse button is up: no gesture holds the pointer
MouseFree == drag.win = NoValue /\ resize.win = NoValue
\* the element is on screen, so the pointer can hit it
Shown(w) == Selected(Cur, w)

gestureVars == <<dragging, resizing, geom, drag, resize>>

\* ------------------------------------------- application windows: handlers
\* icon click or Alt+digit
OpenWindow(appName) ==
    /\ Commit(openWindow(Cur, appName))
    \* opening the notebook refreshes the list of notes
    /\ CommitNotes(IF /\ appName = "about"
                      /\ appName \notin recentlyClosedWindows
                      /\ appName \notin activeWindows
                   THEN loadStickyNotes(Nb) ELSE Nb)
    /\ lastOp' = <<"openWindow", appName>>
    /\ UNCHANGED <<cooledDown, scope, extVars>>
    /\ UNCHANGED gestureVars

\* document mousedown on the close control of a window
CloseControl(w) ==
    /\ MouseFree
    /\ Shown(w)
    /\ w \in Apps \cup Wallpapers
    /\ TimerRoom(1)
    /\ LET \* the wallpaper window's own mousedown listener runs first
           s0 == IF w \in Wallpapers /\ ~Waiting(Timer("show", w))
                 THEN bringWindowToFront(Cur, w) ELSE Cur
       IN Commit(closeWindow(s0, w))
    /\ lastOp' = <<"closeWindow", w>>
    /\ UNCHANGED <<cooledDown, scope, noteVars, extVars>>
    /\ UNCHANGED gestureVars

\* the 200 ms timer of closeWindow
CooldownTimer(appName) ==
    /\ Expires(Timer("cooldown", appName))
    /\ timers' = RemoveFirst(timers, Timer("cooldown", appName))
    /\ recentlyClosedWindows' = recentlyClosedWindows \ {appName}
    /\ cooledDown' = IF appName \in Apps \cap recentlyClosedWindows
                     THEN cooledDown \cup {appName} ELSE cooledDown
    /\ lastOp' = <<"cooldownTimer", appName>>
    /\ UNCHANGED <<scope, noteVars, extVars>>
    /\ UNCHANGED <<activeWindows, windowLayerOrder, dom, active, focused,
                   zIndex, popups, gestureVars>>

\* document mousedown on the minimize control
MinimizeControl(w) ==
    /\ MouseFree
    /\ Shown(w)
    /\ w \in Apps
    /\ TimerRoom(1)
    /\ timers' = Append(timers, Timer("minimize", w))
    /\ lastOp' = <<"minimizeWindow", w>>
    /\ UNCHANGED <<cooledDown, scope, noteVars, extVars>>
    /\ UNCHANGED <<page, gestureVars>>

\* the 400 ms timer of minimizeWindow
MinimizeTimer(w) ==
    /\ Expires(Timer("minimize", w))
    /\ timers' = RemoveFirst(timers, Timer("minimize", w))
    /\ active' = active \ {w}
    /\ activeWindows' = activeWindows \ {dataWindow(w)}
    /\ lastOp' = <<"minimizeTimer", w>>
    /\ UNCHANGED <<cooledDown, scope, noteVars, extVars>>
    /\ UNCHANGED <<windowLayerOrder, recentlyClosedWindows, dom, focused,
                   zIndex, popups, gestureVars>>

\* Escape
CloseAllWindows ==
    /\ TimerRoom(Len(ActiveWindowClass(Cur)))
    /\ Commit(closeAllWindows(Cur))
    /\ lastOp' = <<"closeAllWindows", NoValue>>
    /\ UNCHANGED <<cooledDown, scope, noteVars, extVars>>
    /\ UNCHANGED gestureVars

\* document click inside a shown window
DocumentClick(w) ==
    /\ MouseFree
    /\ w \in WindowClass
    /\ InDom(Cur, w) /\ w \in active
    /\ Commit(focusWindow(Cur, w))
    /\ lastOp' = <<"focusWindow", w>>
    /\ UNCHANGED <<cooledDown, scope, noteVars, extVars>>
    /\ UNCHANGED gestureVars

\* mousedown on the body of a window (click-to-front listeners)
WindowMouseDown(w) ==
    /\ MouseFree
    /\ Shown(w)
    /\ w \in Wallpapers => ~Waiting(Timer("show", w))
    /\ IF w \in Apps /\ dataWindow(w) \in recentlyClosedWindows
       THEN UNCHANGED wm
       ELSE Commit(bringWindowToFront(Cur, w))
    /\ lastOp' = <<"bringWindowToFront", w>>
    /\ UNCHANGED <<cooledDown, scope, noteVars, extVars>>
    /\ UNCHANGED gestureVars

\* ------------------------------------------------------- created windows
\* a name can stand for a new element: nothing of an earlier one is left
Free(w) ==
    /\ ~InDom(Cur, w)
    /\ getWindowId(w) \notin SeqToSet(windowLayerOrder)
    /\ drag.win # w /\ resize.win # w
    /\ ~Waiting(Timer("show", w)) /\ ~Waiting(Timer("remove", w))
    /\ w \in Notes => popups[w] = 0

RemoveFromDom(d, w) == SelectSeq(d, LAMBDA v : v # w)

\* a new element carries only the classes and styles it is created with
Fresh(s, w, isActive) ==
    [s EXCEPT !.dom = Append(@, w),
              !.active = IF isActive THEN @ \cup {w} ELSE @ \ {w},
              !.focused = @ \ {w},
              !.z = [@ EXCEPT ![w] = 0]]

createNoteWindow(s, n) ==
    LET s1 == Fresh(s, n, FALSE)
    IN [s1 EXCEPT !.aw = @ \cup {dataWindow(n)}, !.active = @ \cup {n}]

\* click on "New note" in the notebook: openNewNoteModal
CreateNoteWindow(n) ==
    /\ MouseFree
    /\ Shown("about")
    /\ n \in Notes
    /\ Free(n)
    /\ TimerRoom(1)
    /\ Len(stickyNotes) < scope.notes
    /\ Commit(setTimeout(createNoteWindow(Cur, n), Timer("show", n)))
    /\ LET b == createNewNoteInStorage(Nb, "")
       IN CommitNotes(loadStickyNotes(noteWindowData(b, n, Last(b.notes))))
    /\ geom' = [geom EXCEPT ![n] = NoteGeom]
    /\ dragging' = dragging \ {n}
    /\ resizing' = resizing \ {n}
    /\ lastOp' = <<"createNoteWindow", n>>
    /\ UNCHANGED <<cooledDown, scope, extVars>>
    /\ UNCHANGED <<drag, resize>>

\* click on note i of the list: editStickyNote.  A window that is still in
\* the page is shown again; otherwise a window is created for the note.
EditStickyNote(i, n) ==
    /\ MouseFree
    /\ Shown("about")
    /\ n \in Notes
    /\ i \in 1..Len(stickyNotes)
    /\ IF \E m \in Notes : InDom(Cur, m) /\ noteData[m] = stickyNotes[i].id
       THEN /\ InDom(Cur, n) /\ noteData[n] = stickyNotes[i].id
            /\ Commit(bringWindowToFront([Cur EXCEPT !.active = @ \cup {n}], n))
            /\ lastOp' = <<"editStickyNote", n>>
            /\ UNCHANGED noteVars
            /\ UNCHANGED gestureVars
       ELSE /\ Free(n)
            /\ TimerRoom(1)
            /\ Commit(setTimeout(createNoteWindow(Cur, n), Timer("show", n)))
            /\ CommitNotes(noteWindowData(Nb, n, stickyNotes[i]))
            /\ geom' = [geom EXCEPT ![n] = NoteGeom]
            /\ dragging' = dragging \ {n}
            /\ resizing' = resizing \ {n}
            /\ lastOp' = <<"createNoteWindow", n>>
            /\ UNCHANGED <<drag, resize>>
    /\ UNCHANGED <<cooledDown, scope, extVars>>

\* the 50 ms timer of createNoteWindow and of createWallpaperWindow
ShowTimer(w) ==
    /\ Expires(Timer("show", w))
    /\ geom' = IF w \in Notes
               THEN [geom EXCEPT ![w] = positionNoteWindow(Cur, @)]
               ELSE geom
    /\ Commit(bringWindowToFront(Expired(Cur, Timer("show", w)), w))
    /\ lastOp' = <<"showTimer", w>>
    /\ UNCHANGED <<cooledDown, scope, noteVars, extVars>>
    /\ UNCHANGED <<dragging, resizing, drag, resize>>

\* the window manager's side of closeNoteWindow; autoSaveCleanup clears
\* the pending autosave
closeNoteWindow(s, n) ==
    LET s1 == [s EXCEPT !.timers = RemoveFirst(@, Timer("autosave", n))]
    IN setTimeout([s1 EXCEPT !.aw = @ \ {dataWindow(n)}, !.active = @ \ {n}],
                  Timer("remove", n))

\* click on the close control of a note window
NoteCloseClick(n) ==
    /\ MouseFree
    /\ n \in Notes
    /\ Shown(n)
    /\ TimerRoom(1)
    /\ CommitNotes(autoSaveNote(Nb, n))
    /\ Commit(closeNoteWindow(Cur, n))
    /\ lastOp' = <<"closeNoteWindow", n>>
    /\ UNCHANGED <<cooledDown, scope, extVars>>
    /\ UNCHANGED gestureVars

\* the 300 ms timer of closeNoteWindow
NoteRemoveTimer(n) ==
    /\ Expires(Timer("remove", n))
    /\ timers' = RemoveFirst(timers, Timer("remove", n))
    /\ dom' = RemoveFromDom(dom, n)
    /\ lastOp' = <<"noteRemoveTimer", n>>
    /\ UNCHANGED <<cooledDown, scope, noteVars, extVars>>
    /\ UNCHANGED <<activeWindows, windowLayerOrder, recentlyClosedWindows,
                   active, focused, zIndex, popups, gestureVars>>

\* click on the Delete button of a note window
ShowDeleteConfirmation(n) ==
    /\ MouseFree
    /\ n \in Notes
    /\ Shown(n)
    /\ popups[n] < MaxPopups
    /\ popups' = [popups EXCEPT ![n] = @ + 1]
    /\ lastOp' = <<"showDeleteConfirmation", n>>
    /\ UNCHANGED <<cooledDown, scope, noteVars, extVars>>
    /\ UNCHANGED <<activeWindows, windowLayerOrder, recentlyClosedWindows, dom,
                   active, focused, zIndex, timers, gestureVars>>

\* Cancel, or a click outside the popup.  The outside-click listener is added
\* to the document after the window manager's own listeners, so on a click
\* that also reaches one of those it runs after them, as a step of its own.
PopupCancel(n) ==
    /\ MouseFree
    /\ popups[n] > 0
    /\ popups' = [popups EXCEPT ![n] = @ - 1]
    /\ lastOp' = <<"popupCancel", n>>
    /\ UNCHANGED <<cooledDown, scope, noteVars, extVars>>
    /\ UNCHANGED <<activeWindows, windowLayerOrder, recentlyClosedWindows, dom,
                   active, focused, zIndex, timers, gestureVars>>

\* Delete in the popup: deleteNoteWindow
PopupConfirm(n) ==
    /\ MouseFree
    /\ popups[n] > 0
    /\ TimerRoom(1)
    /\ CommitNotes(autoSaveNote(removeStickyNote(Nb, noteData[n]), n))
    /\ Commit(closeNoteWindow([Cur EXCEPT !.popups = [@ EXCEPT ![n] = @ - 1]], n))
    /\ lastOp' = <<"deleteNoteWindow", n>>
    /\ UNCHANGED <<cooledDown, scope, extVars>>
    /\ UNCHANGED gestureVars

\* ------------------------------------------------- note editor: handlers
\* input, paste or keyup in the editor of a note window: the content is c
\* now, and the autosave is put off by a second
EditorInput(n, c) ==
    /\ n \in Notes
    /\ Shown(n)
    /\ c \in Contents \ {editor[n]}
    /\ Len(RemoveFirst(timers, Timer("autosave", n))) < MaxTimers
    /\ editor' = [editor EXCEPT ![n] = c]
    /\ timers' = Append(RemoveFirst(timers, Timer("autosave", n)), Timer("autosave", n))
    /\ lastOp' = <<"editorInput", n>>
    /\ UNCHANGED <<cooledDown, scope, stickyNotes, noteData, isPinned, extVars>>
    /\ UNCHANGED <<page, gestureVars>>

\* the 1000 ms timer of the editor: performAutoSave
AutoSaveTimer(n) ==
    /\ Expires(Timer("autosave", n))
    /\ timers' = RemoveFirst(timers, Timer("autosave", n))
    /\ CommitNotes(IF editor[n] # "" THEN autoSaveNote(Nb, n) ELSE Nb)
    /\ lastOp' = <<"autoSaveTimer", n>>
    /\ UNCHANGED <<cooledDown, scope, extVars>>
    /\ UNCHANGED <<page, gestureVars>>

\* click on the pin button of a note window.  (The list refresh that
\* togglePinNoteWindow schedules finds the notes as autoSaveNote left them.)
TogglePinNoteWindow(n) ==
    /\ MouseFree
    /\ n \in Notes
    /\ Shown(n)
    /\ CommitNotes(autoSaveNote([Nb EXCEPT !.isPinned[n] = ~@], n))
    /\ lastOp' = <<"togglePinNoteWindow", n>>
    /\ UNCHANGED <<cooledDown, scope, extVars>>
    /\ UNCHANGED <<wm, gestureVars>>

toggleStickyNotePin(b, i) ==
    loadStickyNotes([b EXCEPT !.notes[i].pinned = ~@])

\* click on the pin icon of note i of the list
ToggleStickyNotePin(i) ==
    /\ MouseFree
    /\ Shown("about")
    /\ i \in 1..Len(stickyNotes)
    /\ CommitNotes(toggleStickyNotePin(Nb, i))
    /\ lastOp' = <<"toggleStickyNotePin", NoValue>>
    /\ UNCHANGED <<cooledDown, scope, extVars>>
    /\ UNCHANGED <<wm, gestureVars>>

\* click on a sticker of the sticker browser
ShowStickerModal(w) ==
    /\ MouseFree
    /\ Shown("skills")
    /\ w \in Stickers
    /\ drag.win # w
    /\ IF InDom(Cur, w)
       THEN /\ Commit(bringWindowToFront(Cur, w))
            /\ UNCHANGED <<geom, dragging>>
       ELSE /\ Commit(bringWindowToFront(Fresh(Cur, w, TRUE), w))
            /\ \E spot \in StickerSpots : geom' = [geom EXCEPT ![w] = spot]
            /\ dragging' = dragging \ {w}
    /\ lastOp' = <<"showStickerModal", w>>
    /\ UNCHANGED <<cooledDown, scope, noteVars, extVars>>
    /\ UNCHANGED <<resizing, drag, resize>>

\* click on the close control of a sticker preview
StickerCloseClick(w) ==
    /\ MouseFree
    /\ w \in Stickers
    /\ InDom(Cur, w)
    /\ LET s1 == [Cur EXCEPT !.order = RemoveFirst(@, getWindowId(w))]
           s2 == recalculateWindowLayers(s1)
       IN Commit([s2 EXCEPT !.dom = RemoveFromDom(@, w)])
    /\ lastOp' = <<"stickerClose", w>>
    /\ UNCHANGED <<cooledDown, scope, noteVars, extVars>>
    /\ UNCHANGED gestureVars

\* "Change wallpaper" in the desktop menu
OpenWallpaperSelector(w) ==
    /\ MouseFree
    /\ w \in Wallpapers
    /\ Free(w)
    /\ TimerRoom(1)
    /\ LET s1 == [Cur EXCEPT !.dom = SelectSeq(@, LAMBDA v : v \notin Wallpapers)]
       IN Commit(bringWindowToFront(setTimeout(Fresh(s1, w, TRUE), Timer("show", w)), w))
    /\ geom' = [geom EXCEPT ![w] = WallpaperGeom]
    /\ dragging' = dragging \ {w}
    /\ lastOp' = <<"openWallpaperSelector", w>>
    /\ UNCHANGED <<cooledDown, scope, noteVars, extVars>>
    /\ UNCHANGED <<resizing, drag, resize>>

\* the click that follows the mousedown on the wallpaper window's close
\* control: the mousedown has hidden the window, or is no older than the
\* cooldown it started
WallpaperCloseClick(w) ==
    /\ MouseFree
    /\ w \in Wallpapers
    /\ InDom(Cur, w)
    /\ w \notin active \/ dataWindow(w) \in recentlyClosedWindows
    /\ dom' = RemoveFromDom(dom, w)
    /\ lastOp' = <<"wallpaperClose", w>>
    /\ UNCHANGED <<cooledDown, scope, noteVars, extVars>>
    /\ UNCHANGED <<activeWindows, windowLayerOrder, recentlyClosedWindows,
                   active, focused, zIndex, popups, timers, gestureVars>>

\* --------------------------------------------------------- header gesture
NoFrame == <<>>

\* mousedown on a window header, outside its controls
HeaderMouseDown(w) ==
    /\ MouseFree
    /\ Shown(w)
    /\ w \in Wallpapers => ~Waiting(Timer("show", w))
    /\ IF w \in Stickers
       THEN UNCHANGED wm
       ELSE Commit(bringWindowToFront(Cur, w))
    /\ drag' = [win |-> w, isDragging |-> FALSE, hasMoved |-> FALSE,
                startLeft |-> geom[w].left, startTop |-> geom[w].top,
                frame |-> NoFrame]
    /\ lastOp' = <<"headerMouseDown", w>>
    /\ UNCHANGED <<cooledDown, scope, noteVars, extVars>>
    /\ UNCHANGED <<dragging, resizing, geom, resize>>

\* mousedown on the header of the window whose header gesture is still in
\* progress: a second mouse button goes down while the first is held.  The
\* handler does not look at the button and runs as for a first press; the
\* header's isDragging, hasMoved and start values are shared by all its
\* presses, and the new pair of document listeners repeats what the
\* registered pair does.
HeaderMouseDownAgain(w) ==
    /\ drag.win = w
    /\ Shown(w)
    /\ w \notin Stickers
    /\ Commit(bringWindowToFront(Cur, w))
    /\ drag' = [drag EXCEPT !.startLeft = geom[w].left, !.startTop = geom[w].top]
    /\ lastOp' = <<"headerMouseDown", w>>
    /\ UNCHANGED <<cooledDown, scope, noteVars, extVars>>
    /\ UNCHANGED <<dragging, resizing, geom, resize>>

dragPosition(g, d, dx, dy) ==
    [g EXCEPT !.left = d.startLeft + dx,
              !.top = Max(taskbarHeight, d.startTop + dy)]

exceedsThreshold_Inclusive(dx, dy) ==
    Abs(dx) >= dragThreshold \/ Abs(dy) >= dragThreshold

\* the pointer is more than 3 px from the mousedown point on some axis
exceedsThreshold(dx, dy) ==
    Abs(dx) > dragThreshold \/ Abs(dy) > dragThreshold

\* mousemove while the header listeners are registered; (dx, dy) is the
\* pointer's offset from the mousedown point
HeaderMouseMove(dx, dy) ==
    /\ drag.win # NoValue
    /\ LET w == drag.win
           starts == ~drag.isDragging /\ exceedsThreshold(dx, dy)
           isDragging == drag.isDragging \/ starts
       IN /\ IF starts
             THEN /\ Commit([bringWindowToFront(Cur, w) EXCEPT !.z[w] = dragZIndex])
                  /\ dragging' = dragging \cup {w}
             ELSE UNCHANGED <<wm, dragging>>
          /\ IF isDragging /\ w \in Stickers
             THEN geom' = [geom EXCEPT ![w] = dragPosition(@, drag, dx, dy)]
             ELSE geom' = geom
          /\ drag' = [drag EXCEPT !.isDragging = isDragging,
                                  !.hasMoved = @ \/ starts,
                                  !.frame = IF isDragging /\ w \notin Stickers
                                            THEN <<dx, dy>> ELSE @]
    /\ lastOp' = <<"headerMouseMove", drag.win>>
    /\ UNCHANGED <<cooledDown, scope, noteVars, extVars>>
    /\ UNCHANGED <<resizing, resize>>

\* the animation frame requested by the last mousemove
FrameCallback ==
    /\ drag.win # NoValue
    /\ drag.frame # NoFrame
    /\ geom' = [geom EXCEPT ![drag.win] = dragPosition(@, drag, drag.frame[1], drag.frame[2])]
    /\ drag' = [drag EXCEPT !.frame = NoFrame]
    /\ lastOp' = <<"frameCallback", drag.win>>
    /\ UNCHANGED <<cooledDown, scope, noteVars, extVars>>
    /\ UNCHANGED <<wm, dragging, resizing, resize>>

\* mouseup while the header listeners are registered
HeaderMouseUp ==
    /\ drag.win # NoValue
    /\ LET w == drag.win
       IN IF drag.isDragging
          THEN /\ dragging' = dragging \ {w}
               /\ Commit(bringWindowToFront(Cur, w))
          ELSE /\ dragging' = dragging
               /\ IF ~drag.hasMoved \/ w \in Stickers
                  THEN Commit(bringWindowToFront(Cur, w))
                  ELSE UNCHANGED wm
    /\ drag' = None
    /\ lastOp' = <<"headerMouseUp", drag.win>>
    /\ UNCHANGED <<cooledDown, scope, noteVars, extVars>>
    /\ UNCHANGED <<resizing, geom, resize>>

\* --------------------------------------------------------- resize gesture
Handles == {"n", "s", "e", "w", "ne", "nw", "se", "sw"}

\* mousedown on a resize handle
ResizeMouseDown(w, h) ==
    /\ MouseFree
    /\ Shown(w)
    /\ w \in Apps \cup Notes
    /\ resize' = [win |-> w, handle |-> h,
                  startWidth |-> geom[w].width, startHeight |-> geom[w].height,
                  startLeft |-> geom[w].left, startTop |-> geom[w].top]
    /\ resizing' = resizing \cup {w}
    /\ lastOp' = <<"resizeMouseDown", w>>
    /\ UNCHANGED <<cooledDown, scope, noteVars, extVars>>
    /\ UNCHANGED <<wm, dragging, geom, drag>>

\* mutation: an east handle moves the left edge along with the pointer
resizeGeometry_EastShiftsLeft(r, dx, dy) ==
    LET east == r.handle \in {"e", "se", "ne"}
        west == r.handle \in {"w", "sw", "nw"}
        south == r.handle \in {"s", "se", "sw"}
        north == r.handle \in {"n", "ne", "nw"}
        newWidth == IF east THEN Max(minWidth, r.startWidth + dx)
                    ELSE IF west THEN Max(minWidth, r.startWidth - dx)
                    ELSE r.startWidth
        newHeight == IF south THEN Max(minHeight, r.startHeight + dy)
                     ELSE IF north THEN Max(minHeight, r.startHeight - dy)
                     ELSE r.startHeight
        newLeft == IF west THEN r.startLeft + (r.startWidth - newWidth)
                   ELSE IF east THEN r.startLeft + dx
                   ELSE r.startLeft
        newTop == IF north THEN r.startTop + (r.startHeight - newHeight) ELSE r.startTop
    IN IF newTop < taskbarHeight
       THEN Geom(newLeft, taskbarHeight, newWidth,
                 Max(minHeight, newHeight - (taskbarHeight - newTop)))
       ELSE Geom(newLeft, newTop, newWidth, newHeight)

\* mutation: the width is not held at its minimum
resizeGeometry_NoMinWidth(r, dx, dy) ==
    LET east == r.handle \in {"e", "se", "ne"}
        west == r.handle \in {"w", "sw", "nw"}
        south == r.handle \in {"s", "se", "sw"}
        north == r.handle \in {"n", "ne", "nw"}
        newWidth == IF east THEN r.startWidth + dx
                    ELSE IF west THEN r.startWidth - dx
                    ELSE r.startWidth
        newHeight == IF south THEN Max(minHeight, r.startHeight + dy)
                     ELSE IF north THEN Max(minHeight, r.startHeight - dy)
                     ELSE r.startHeight
        newLeft == IF west THEN r.startLeft + (r.startWidth - newWidth) ELSE r.startLeft
        newTop == IF north THEN r.startTop + (r.startHeight - newHeight) ELSE r.startTop
    IN IF newTop < taskbarHeight
       THEN Geom(newLeft, taskbarHeight, newWidth,
                 Max(minHeight, newHeight - (taskbarHeight - newTop)))
       ELSE Geom(newLeft, newTop, newWidth, newHeight)

resizeGeometry(r, dx, dy) ==
    LET east == r.handle \in {"e", "se", "ne"}
        west == r.handle \in {"w", "sw", "nw"}
        south == r.handle \in {"s", "se", "sw"}
        north == r.handle \in {"n", "ne", "nw"}
        newWidth == IF east THEN Max(minWidth, r.startWidth + dx)
                    ELSE IF west THEN Max(minWidth, r.startWidth - dx)
                    ELSE r.startWidth
        newHeight == IF south THEN Max(minHeight, r.startHeight + dy)
                     ELSE IF north THEN Max(minHeight, r.startHeight - dy)
                     ELSE r.startHeight
        newLeft == IF west THEN r.startLeft + (r.startWidth - newWidth) ELSE r.startLeft
        newTop == IF north THEN r.startTop + (r.startHeight - newHeight) ELSE r.startTop
    IN IF newTop < taskbarHeight
       THEN Geom(newLeft, taskbarHeight, newWidth,
                 Max(minHeight, newHeight - (taskbarHeight - newTop)))
       ELSE Geom(newLeft, newTop, newWidth, newHeight)

\* mousemove while the resize listeners are registered
ResizeMouseMove(dx, dy) ==
    /\ resize.win # NoValue
    /\ geom' = [geom EXCEPT ![resize.win] = resizeGeometry(resize, dx, dy)]
    /\ lastOp' = <<"resizeMouseMove", resize.win>>
    /\ UNCHANGED <<cooledDown, scope, noteVars, extVars>>
    /\ UNCHANGED <<wm, dragging, resizing, drag, resize>>

\* mouseup while the resize listeners are registered
ResizeMouseUp ==
    /\ resize.win # NoValue
    /\ resizing' = resizing \ {resize.win}
    /\ resize' = None
    /\ lastOp' = <<"resizeMouseUp", resize.win>>
    /\ UNCHANGED <<cooledDown, scope, noteVars, extVars>>
    /\ UNCHANGED <<wm, dragging, geom, drag>>

\* ---------------------------------------------------------- specifications
\* pointer offsets of the window-management specification: a press without
\* movement, and a pull up against the task bar
Moves == {<<0, 0>>, <<0, -200>>}

\* What one run of the model exercises: the windows the user works with,
\* whether the user drags headers, and whether the user asks for delete
\* confirmations.  A run stays within one of these; all handlers and timers
\* of the windows it names are live.
Scenarios ==
    { [wins |-> {"about", "skills"}, headerDrag |-> TRUE, confirm |-> FALSE, notes |-> 1, escape |-> TRUE],
      [wins |-> {"about", "note-window-1"}, headerDrag |-> FALSE, confirm |-> TRUE, notes |-> 1, escape |-> TRUE],
      [wins |-> {"about", "note-window-1"}, headerDrag |-> TRUE, confirm |-> FALSE, notes |-> 1, escape |-> TRUE],
      [wins |-> {"skills", "sticker-1"}, headerDrag |-> TRUE, confirm |-> FALSE, notes |-> 1, escape |-> TRUE],
      [wins |-> {"about", "wallpaper-1", "wallpaper-2"}, headerDrag |-> FALSE, confirm |-> FALSE, notes |-> 1, escape |-> TRUE] }

In(S) == S \cap scope.wins

Init ==
    /\ StartsAs(Constructed)
    /\ geom = [w \in Windows |-> StaticGeom]
    /\ scope \in Scenarios

Next ==
    \/ \E a \in In(Apps) : OpenWindow(a)
    \/ \E a \in AppNames : CooldownTimer(a)
    \/ \E w \in In(Windows) : CloseControl(w)
    \/ \E w \in In(Apps) : MinimizeControl(w)
    \/ \E w \in In(Apps) : MinimizeTimer(w)
    \/ CloseAllWindows
    \/ \E w \in In(Windows) : DocumentClick(w)
    \/ \E w \in In(Windows) : WindowMouseDown(w)
    \/ \E n \in In(Notes) : CreateNoteWindow(n)
    \/ \E n \in In(Notes) : \E i \in 1..Len(stickyNotes) : EditStickyNote(i, n)
    \/ \E w \in In(Notes \cup Wallpapers) : ShowTimer(w)
    \/ \E n \in In(Notes) : NoteCloseClick(n)
    \/ \E n \in In(Notes) : NoteRemoveTimer(n)
    \/ \E n \in In(Notes) : scope.confirm /\ ShowDeleteConfirmation(n)
    \/ \E n \in In(Notes) : PopupCancel(n)
    \/ \E n \in In(Notes) : PopupConfirm(n)
    \/ \E w \in In(Stickers) : ShowStickerModal(w)
    \/ \E w \in In(Stickers) : StickerCloseClick(w)
    \/ \E w \in In(Wallpapers) : OpenWallpaperSelector(w)
    \/ \E w \in In(Wallpapers) : WallpaperCloseClick(w)
    \/ \E w \in In(Windows) : scope.headerDrag /\ HeaderMouseDown(w)
    \/ \E m \in Moves : HeaderMouseMove(m[1], m[2])
    \/ FrameCallback
    \/ HeaderMouseUp

Spec == Init /\ [][Next]_vars

\* ------------------------------------------------ geometry specification
\* One application window, open, and every pointer gesture that changes its
\* geometry.  Pointer offsets come in steps of the grid below; the pointer
\* stays where the resulting geometry is on the modelled screen.
MinLeft == 60
MaxLeft == 140
MaxTop == 100
MaxWidth == 380
MaxHeight == 260
GeomWindow == "about"
GeomStarts ==
    {Geom(100, t, w, h) : t \in {40, 100}, w \in {300, 340}, h \in {200, 230}}
GeomMoves == {<<dx, dy>> : dx \in {-40, 0, 40}, dy \in {-30, 0, 30}}
OnScreen(g) ==
    /\ g.left \in MinLeft..MaxLeft
    /\ g.top \in 0..MaxTop
    /\ g.width \in 0..MaxWidth
    /\ g.height \in 0..MaxHeight

InitGeom ==
    /\ StartsAs(openWindow(Constructed, GeomWindow))
    /\ \E g \in GeomStarts : geom = [w \in Windows |-> IF w = GeomWindow THEN g ELSE StaticGeom]
    /\ scope = [wins |-> {GeomWindow}, headerDrag |-> TRUE, confirm |-> FALSE, notes |-> 1, escape |-> TRUE]

NextGeom ==
    \/ HeaderMouseDown(GeomWindow)
    \/ \E m \in GeomMoves :
          /\ drag.win # NoValue
          /\ OnScreen(dragPosition(geom[drag.win], drag, m[1], m[2]))
          /\ HeaderMouseMove(m[1], m[2])
    \/ FrameCallback
    \/ HeaderMouseUp
    \/ \E h \in Handles : ResizeMouseDown(GeomWindow, h)
    \/ \E m \in GeomMoves :
          /\ resize.win # NoValue
          /\ OnScreen(resizeGeometry(resize, m[1], m[2]))
          /\ ResizeMouseMove(m[1], m[2])
    \/ ResizeMouseUp

SpecGeom == InitGeom /\ [][NextGeom]_vars

\* ------------------------------------------- drag threshold specification
\* Header gestures whose pointer offsets lie at the drag threshold and one
\* pixel beyond it, on either axis and in either direction, as long as the
\* window stays within ClickRange pixels of left 100 and of the task bar.
NextClick ==
    \/ HeaderMouseDown(GeomWindow)
    \/ \E m \in {<<0, 0>>, <<3, 3>>, <<-3, 3>>, <<-3, -3>>, <<-4, 0>>, <<0, 4>>,
                  <<0, -4>>} :
          /\ drag.win # NoValue
          /\ LET p == dragPosition(geom[drag.win], drag, m[1], m[2])
             IN /\ Abs(p.left - 100) <= ClickRange
                /\ p.top <= taskbarHeight + ClickRange
          /\ HeaderMouseMove(m[1], m[2])
    \/ FrameCallback
    \/ HeaderMouseUp

SpecClick == InitGeom /\ [][NextClick]_vars

\* ------------------------------------------- mouse buttons specification
\* The gestures of the geometry specification with a mouse of several
\* buttons: a button can go down on the header while another is held there.
NextButtons ==
    \/ NextGeom
    \/ HeaderMouseDownAgain(GeomWindow)

SpecButtons == InitGeom /\ [][NextButtons]_vars

\* ------------------------------------------- statement-order specification
\* openWindow, focusWindow and closeWindow on the application windows, one
\* group of statements at a time, in the order in which the source has them:
\* the writes to the registry (activeWindows and the class "active"), the
\* writes to the layer stack (windowLayerOrder, then the z-index
\* recalculation), the writes to the focused flag.  lastOp holds the
\* statements that have run; no other handler or timer runs before the
\* handler has returned.
Returned == lastOp[1] \in {"init", "openWindow", "focusWindow", "closeWindow",
                          "cooldownTimer"}

\* openWindow 1079-1111, or focusWindow 1312-1320 with the first statement of
\* bringWindowToFront (3506): the registry
RegistryStatements(op, w) ==
    /\ Returned
    /\ op \in {"openWindow", "focusWindow"}
    /\ op = "focusWindow" => Shown(w)
    /\ IF dataWindow(w) \in recentlyClosedWindows
       THEN /\ lastOp' = <<op, w>>
            /\ UNCHANGED <<activeWindows, active>>
       ELSE /\ lastOp' = <<op \o ":registry", w>>
            /\ activeWindows' = IF op = "openWindow"
                                THEN activeWindows \cup {dataWindow(w)}
                                ELSE activeWindows
            /\ active' = active \cup {w}
    /\ UNCHANGED <<windowLayerOrder, recentlyClosedWindows, dom, focused, zIndex,
                   popups, timers, gestureVars, cooledDown, scope, noteVars, extVars>>

\* bringWindowToFront 3508-3524: the layer stack
LayerStatements(op, w) ==
    /\ lastOp = <<op \o ":registry", w>>
    /\ LET id == getWindowId(w)
           s == recalculateWindowLayers(
                   [Cur EXCEPT !.order = Append(RemoveFirst(@, id), id)])
       IN /\ windowLayerOrder' = s.order
          /\ zIndex' = s.z
    /\ lastOp' = <<op \o ":layers", w>>
    /\ UNCHANGED <<activeWindows, recentlyClosedWindows, dom, active, focused,
                   popups, timers, gestureVars, cooledDown, scope, noteVars, extVars>>

\* bringWindowToFront 3526-3536 and focusWindow 1325-1331: the focused flag
FocusStatements(op, w) ==
    /\ lastOp = <<op \o ":layers", w>>
    /\ LET others == {v \in Windows : Selected(Cur, v) /\ v # w}
           shown == {v \in WindowClass : InDom(Cur, v) /\ v \in active}
       IN focused' = (((focused \ others) \cup {w}) \ shown) \cup {w}
    /\ lastOp' = <<op, w>>
    /\ UNCHANGED <<activeWindows, windowLayerOrder, recentlyClosedWindows, dom,
                   active, zIndex, popups, timers, gestureVars, cooledDown,
                   scope, noteVars, extVars>>

\* closeWindow 1162-1167: the layer stack
CloseLayerStatements(w) ==
    /\ Returned
    /\ Shown(w)
    /\ TimerRoom(1)
    /\ windowLayerOrder' = RemoveFirst(windowLayerOrder, getWindowId(w))
    /\ lastOp' = <<"closeWindow:layers", w>>
    /\ UNCHANGED <<activeWindows, recentlyClosedWindows, dom, active, focused,
                   zIndex, popups, timers, gestureVars, cooledDown, scope,
                   noteVars, extVars>>

\* closeWindow 1170-1171: the registry
CloseRegistryStatements(w) ==
    /\ lastOp = <<"closeWindow:layers", w>>
    /\ activeWindows' = activeWindows \ {dataWindow(w)}
    /\ active' = active \ {w}
    /\ lastOp' = <<"closeWindow:registry", w>>
    /\ UNCHANGED <<windowLayerOrder, recentlyClosedWindows, dom, focused, zIndex,
                   popups, timers, gestureVars, cooledDown, scope, noteVars, extVars>>

\* closeWindow 1175-1190: the recalculation and the cooldown
CloseRestStatements(w) ==
    /\ lastOp = <<"closeWindow:registry", w>>
    /\ Commit(setTimeout([recalculateWindowLayers(Cur) EXCEPT !.rc = @ \cup {dataWindow(w)}],
                         Timer("cooldown", dataWindow(w))))
    /\ lastOp' = <<"closeWindow", w>>
    /\ UNCHANGED <<gestureVars, cooledDown, scope, noteVars, extVars>>

NextStatements ==
    \/ \E op \in {"openWindow", "focusWindow"} : \E w \in Apps : RegistryStatements(op, w)
    \/ \E op \in {"openWindow", "focusWindow"} : \E w \in Apps : LayerStatements(op, w)
    \/ \E op \in {"openWindow", "focusWindow"} : \E w \in Apps : FocusStatements(op, w)
    \/ \E w \in Apps : CloseLayerStatements(w)
    \/ \E w \in Apps : CloseRegistryStatements(w)
    \/ \E w \in Apps : CloseRestStatements(w)
    \/ \E a \in Apps : Returned /\ CooldownTimer(a)

SpecStatements == Init /\ [][NextStatements]_vars

\* ------------------------------------------------ notebook specification
\* The notebook and one note window: notes are created, edited, pinned,
\* saved, closed and deleted, by every path the page offers.
NoteScenarios ==
    { \* several notes, pinned and edited
      [wins |-> {"about", "note-window-1"}, headerDrag |-> FALSE,
       confirm |-> FALSE, notes |-> MaxNotes, escape |-> FALSE],
      \* one note, closed and deleted by every path
      [wins |-> {"about", "note-window-1"}, headerDrag |-> FALSE,
       confirm |-> TRUE, notes |-> 1, escape |-> TRUE] }

InitNotes ==
    /\ StartsAs(openWindow(Constructed, "about"))
    /\ geom = [w \in Windows |-> StaticGeom]
    /\ scope \in NoteScenarios

NextNotes ==
    \/ scope.escape /\ OpenWindow("about")
    \/ \E a \in AppNames : CooldownTimer(a)
    \/ scope.escape /\ CloseAllWindows
    \/ \E w \in {"about"} \cup Notes : WindowMouseDown(w)
    \/ \E n \in Notes : CreateNoteWindow(n)
    \/ \E n \in Notes : \E i \in 1..Len(stickyNotes) : EditStickyNote(i, n)
    \/ \E n \in Notes : ShowTimer(n)
    \/ \E n \in Notes : \E c \in Contents : EditorInput(n, c)
    \/ \E n \in Notes : AutoSaveTimer(n)
    \/ \E n \in Notes : TogglePinNoteWindow(n)
    \/ \E i \in 1..Len(stickyNotes) : ToggleStickyNotePin(i)
    \/ \E n \in Notes : NoteCloseClick(n)
    \/ \E n \in Notes : NoteRemoveTimer(n)
    \/ \E n \in Notes : scope.confirm /\ ShowDeleteConfirmation(n)
    \/ \E n \in Notes : PopupCancel(n)
    \/ \E n \in Notes : PopupConfirm(n)

SpecNotes == InitNotes /\ [][NextNotes]_vars

\* ------------------------------------------------------ game specification
\* checkWin after a move that brought the mover's stones to n: winLength
\* stones in a row need winLength stones; where they lie is left open
checkWin(n) == IF n >= winLength THEN BOOLEAN ELSE {FALSE}

checkDraw(g) == g.player + g.ai = boardSize * boardSize

\* handleWin and handleDraw, up to the message: the game is over and restarts
\* by itself after two seconds
GameEnds(g) ==
    /\ game' = [g EXCEPT !.gameOver = TRUE, !.isThinking = FALSE]
    /\ timers' = Append(timers, Timer("restart", "game"))

\* click on an empty cell of the board
HandlePlayerMove ==
    /\ game.player < MaxStones
    /\ TimerRoom(1)
    /\ IF game.gameOver \/ ~game.isPlayerTurn \/ game.isThinking
       THEN UNCHANGED <<game, timers>>
       ELSE LET g == [game EXCEPT !.player = @ + 1]
            IN \E win \in checkWin(g.player) :
                  IF win \/ checkDraw(g)
                  THEN GameEnds(g)
                  ELSE /\ game' = [g EXCEPT !.isPlayerTurn = FALSE, !.isThinking = TRUE]
                       /\ timers' = Append(timers, Timer("aiMove", "game"))
    /\ lastOp' = <<"handlePlayerMove", "game">>
    /\ UNCHANGED <<page, gestureVars, cooledDown, scope, noteVars, svgCache, totalSize>>

\* the 500 ms timer of makeAIMove; getBestMove finds a cell whenever one is
\* empty
AIMoveTimer ==
    /\ Expires(Timer("aiMove", "game"))
    /\ game.ai < MaxStones
    /\ LET rest == RemoveFirst(timers, Timer("aiMove", "game"))
           g == [game EXCEPT !.ai = @ + 1]
       IN IF checkDraw(game)
          THEN /\ timers' = rest
               /\ UNCHANGED game
          ELSE \E win \in checkWin(g.ai) :
                  IF win \/ checkDraw(g)
                  THEN /\ game' = [g EXCEPT !.gameOver = TRUE, !.isThinking = FALSE]
                       /\ timers' = Append(rest, Timer("restart", "game"))
                  ELSE /\ game' = [g EXCEPT !.isPlayerTurn = TRUE, !.isThinking = FALSE]
                       /\ timers' = rest
    /\ lastOp' = <<"aiMoveTimer", "game">>
    /\ UNCHANGED <<page, gestureVars, cooledDown, scope, noteVars, svgCache, totalSize>>

\* click on the reset button
ResetGame ==
    /\ game' = NewGame
    /\ lastOp' = <<"resetGame", "game">>
    /\ UNCHANGED <<wm, gestureVars, cooledDown, scope, noteVars, svgCache, totalSize>>

\* the 2 s timer of handleWin and handleDraw
RestartTimer ==
    /\ Expires(Timer("restart", "game"))
    /\ timers' = RemoveFirst(timers, Timer("restart", "game"))
    /\ game' = NewGame
    /\ lastOp' = <<"restartTimer", "game">>
    /\ UNCHANGED <<page, gestureVars, cooledDown, scope, noteVars, svgCache, totalSize>>

InitGame ==
    /\ StartsAs(Constructed)
    /\ geom = [w \in Windows |-> StaticGeom]
    /\ scope = [wins |-> {"game"}, headerDrag |-> FALSE, confirm |-> FALSE,
                notes |-> 1, escape |-> FALSE]

NextGame ==
    \/ HandlePlayerMove
    \/ AIMoveTimer
    \/ ResetGame
    \/ RestartTimer

SpecGame == InitGame /\ [][NextGame]_vars

\* ------------------------------------------------------------ asset cache
\* svgCache holds its entries in the order of their time stamps, oldest
\* first; an entry is [key, size, expired], expired once more than
\* maxCacheAge has passed since its time stamp.
toLowerCase(assetPath) == IF assetPath = "A.svg" THEN "a.svg" ELSE assetPath

CacheIndex(cache, key) ==
    LET hits == {i \in 1..Len(cache) : cache[i].key = key}
    IN IF hits = {} THEN 0 ELSE CHOOSE i \in hits : TRUE

\* the oldest quarter of the entries, rounded up, is removed
evictOldestCacheEntries(c) ==
    LET toRemove == (Len(c.cache) + 3) \div 4
        removed == SubSeq(c.cache, 1, toRemove)
        sizes[i \in 0..toRemove] == IF i = 0 THEN 0 ELSE sizes[i - 1] + removed[i].size
    IN [cache |-> SubSeq(c.cache, toRemove + 1, Len(c.cache)),
        total |-> c.total - sizes[toRemove]]

GetCachedSVG(assetPath) ==
    /\ LET i == CacheIndex(svgCache, toLowerCase(assetPath))
       IN svgCache' = IF i # 0 /\ svgCache[i].expired
                      THEN SelectSeq(svgCache, LAMBDA e : e.key # svgCache[i].key)
                      ELSE svgCache
    /\ lastOp' = <<"getCachedSVG", assetPath>>
    /\ UNCHANGED <<wm, gestureVars, cooledDown, scope, noteVars, game, totalSize>>

SetCachedSVG(assetPath, size) ==
    /\ totalSize <= MaxTotalSize
    /\ LET cacheKey == toLowerCase(assetPath)
           c0 == [cache |-> svgCache, total |-> totalSize]
           c1 == IF c0.total + size > maxCacheSize
                 THEN evictOldestCacheEntries(c0) ELSE c0
           others == SelectSeq(c1.cache, LAMBDA e : e.key # cacheKey)
       IN /\ svgCache' = Append(others, [key |-> cacheKey, size |-> size, expired |-> FALSE])
          /\ totalSize' = c1.total + size
    /\ lastOp' = <<"setCachedSVG", assetPath>>
    /\ UNCHANGED <<wm, gestureVars, cooledDown, scope, noteVars, game>>

\* the periodic check: evicts above 90 % of the limit
CheckForMemoryLeaks ==
    /\ LET c == IF 10 * totalSize > 9 * maxCacheSize
                THEN evictOldestCacheEntries([cache |-> svgCache, total |-> totalSize])
                ELSE [cache |-> svgCache, total |-> totalSize]
       IN /\ svgCache' = c.cache
          /\ totalSize' = c.total
    /\ lastOp' = <<"checkForMemoryLeaks", NoValue>>
    /\ UNCHANGED <<wm, gestureVars, cooledDown, scope, noteVars, game>>

CleanupResources ==
    /\ svgCache' = SelectSeq(svgCache, LAMBDA e : ~e.expired)
    /\ LET sizes[i \in 0..Len(svgCache)] ==
              IF i = 0 THEN 0
              ELSE sizes[i - 1] + (IF svgCache[i].expired THEN svgCache[i].size ELSE 0)
       IN totalSize' = totalSize - sizes[Len(svgCache)]
    /\ lastOp' = <<"cleanupResources", NoValue>>
    /\ UNCHANGED <<wm, gestureVars, cooledDown, scope, noteVars, game>>

\* time passes: the k oldest entries are now older than maxCacheAge
TimePasses(k) ==
    /\ k \in 1..Len(svgCache)
    /\ ~svgCache[k].expired
    /\ svgCache' = [i \in 1..Len(svgCache) |->
                       IF i <= k THEN [svgCache[i] EXCEPT !.expired = TRUE]
                       ELSE svgCache[i]]
    /\ lastOp' = <<"timePasses", NoValue>>
    /\ UNCHANGED <<wm, gestureVars, cooledDown, scope, noteVars, game, totalSize>>

NextCache ==
    \/ \E a \in {"a.svg", "A.svg", "b.svg", "c.svg"} : GetCachedSVG(a)
    \/ \E a \in {"a.svg", "A.svg", "b.svg", "c.svg"} : \E size \in 1..3 : SetCachedSVG(a, size)
    \/ CheckForMemoryLeaks
    \/ CleanupResources
    \/ \E k \in 1..3 : TimePasses(k)

SpecCache == InitGame /\ [][NextCache]_vars

\* ------------------------------------------- popup and drag specification
\* The notebook window and one note window, dragged by their headers while
\* the delete confirmation of the note is asked for and cancelled.
NextPopup ==
    \/ \E n \in Notes : CreateNoteWindow(n)
    \/ \E n \in Notes : ShowTimer(n)
    \/ \E n \in Notes : ShowDeleteConfirmation(n)
    \/ \E n \in Notes : PopupCancel(n)
    \/ \E w \in {GeomWindow} \cup Notes : HeaderMouseDown(w)
    \/ \E m \in Moves : HeaderMouseMove(m[1], m[2])
    \/ FrameCallback
    \/ HeaderMouseUp

SpecPopup == InitGeom /\ [][NextPopup]_vars

\* ------------------------------------------------------------ properties
\* the element an id of the layer stack stands for
WindowOf(id) == CHOOSE w \in Windows : getWindowId(w) = id
\* ids of the windows on screen
VisibleIds == {getWindowId(w) : w \in {v \in Windows : Shown(v)}}
\* the ids other than id that both stacks hold are in the same order in both
KeepsOrder(old, new, id) ==
    \A x, y \in (SeqToSet(old) \cap SeqToSet(new)) \ {id} :
        IndexOf(old, x) < IndexOf(old, y) => IndexOf(new, x) < IndexOf(new, y)

\* C1: in every reachable state windowLayerOrder holds no window id more
\* than once.
C1_NoDuplicateIds == NoDuplicates(windowLayerOrder)

\* a click has just brought a window to the front of a stack of several
C1_Witness ==
    /\ lastOp[1] = "bringWindowToFront"
    /\ Len(windowLayerOrder) >= 2
    /\ Last(windowLayerOrder) = getWindowId(lastOp[2])
    /\ windowLayerOrder[1] # getWindowId(lastOp[2])

\* C2: once one of the named handlers has returned, the ids in
\* windowLayerOrder are exactly the ids of the windows on screen.
C2_OrderMatchesVisible ==
    lastOp[1] \in {"openWindow", "closeWindow", "minimizeWindow", "minimizeTimer",
                   "closeNoteWindow", "createNoteWindow", "stickerClose",
                   "wallpaperClose", "bringWindowToFront"}
      => SeqToSet(windowLayerOrder) = VisibleIds

\* C3: the z-index of the windows on screen grows strictly with their
\* position in windowLayerOrder, during a drag and under a popup as well.
C3_ZIndexIncreasing ==
    \A i, j \in 1..Len(windowLayerOrder) :
        (/\ i < j
         /\ Shown(WindowOf(windowLayerOrder[i]))
         /\ Shown(WindowOf(windowLayerOrder[j])))
          => zIndex[WindowOf(windowLayerOrder[i])] < zIndex[WindowOf(windowLayerOrder[j])]

C5_CooldownNoOp ==
    [][\A w \in Windows :
          (/\ lastOp' \in {<<"openWindow", w>>, <<"focusWindow", w>>}
           /\ dataWindow(w) \in recentlyClosedWindows)
            => UNCHANGED <<activeWindows, windowLayerOrder, active, focused>>]_vars

\* focusWindow has just been called on a window that is on screen although
\* its key is still cooling down, with another window open beside it
C5_Witness ==
    \E w \in Windows :
        /\ lastOp = <<"focusWindow", w>>
        /\ w \in Apps
        /\ dataWindow(w) \in recentlyClosedWindows
        /\ Shown(w)
        /\ Len(windowLayerOrder) >= 2
        /\ Last(windowLayerOrder) # getWindowId(w)

\* C6: an openWindow(appName) issued after the cooldown timer has taken
\* appName out of recentlyClosedWindows, on a window that is not on screen,
\* puts the window on screen and its id last in windowLayerOrder.
C6_OpenAfterCooldown ==
    [][\A a \in Apps :
          (/\ lastOp' = <<"openWindow", a>>
           /\ a \in cooledDown
           /\ a \notin recentlyClosedWindows
           /\ ~Shown(a))
            => /\ Shown(a)'
               /\ Last(windowLayerOrder') = getWindowId(a)]_vars

\* C7: after every geometry update of a header drag or a resize-handle drag
\* the window is at least 300 wide and 200 high and its top is at 40 or below
\* it on the screen.
C7_GeometryClamped ==
    lastOp[1] \in {"frameCallback", "resizeMouseMove"}
      => /\ geom[lastOp[2]].width >= minWidth
         /\ geom[lastOp[2]].height >= minHeight
         /\ geom[lastOp[2]].top >= taskbarHeight

\* a pull on the north-west handle has stopped at the minimum width and
\* height with the top on the task bar's edge
C7_Witness ==
    /\ lastOp[1] = "resizeMouseMove"
    /\ resize.handle = "nw"
    /\ resize.startWidth > minWidth
    /\ geom[lastOp[2]].width = minWidth
    /\ geom[lastOp[2]].top = taskbarHeight

\* C8: focusWindow or bringWindowToFront on a window that is on screen and
\* not cooling down puts its id last in windowLayerOrder, keeps the order of
\* the other ids, and gives it the greatest z-index on screen.
C8_FocusMovesToFront ==
    [][\A w \in Windows :
          (/\ lastOp' \in {<<"focusWindow", w>>, <<"bringWindowToFront", w>>}
           /\ Shown(w)
           /\ dataWindow(w) \notin recentlyClosedWindows)
            => /\ Last(windowLayerOrder') = getWindowId(w)
               /\ KeepsOrder(windowLayerOrder, windowLayerOrder', getWindowId(w))
               /\ \A v \in Windows \ {w} : Shown(v)' => zIndex'[v] < zIndex'[w]]_vars

\* C9: at most one window of the page carries the focused flag.
C9_AtMostOneFocused ==
    Cardinality({w \in focused : InDom(Cur, w)}) <= 1

\* C10: minimizeWindow and its timer leave recentlyClosedWindows alone, and
\* a window that openWindow has put on screen after a minimizeWindow stays
\* on screen until the user closes or minimizes it again.
C10_ReopenAfterMinimize ==
    [][/\ lastOp'[1] \in {"minimizeWindow", "minimizeTimer"}
          => recentlyClosedWindows' = recentlyClosedWindows
       /\ \A a \in Apps :
             (/\ lastOp = <<"openWindow", a>>
              /\ Waiting(Timer("minimize", a))
              /\ Shown(a)
              /\ lastOp'[1] \notin {"closeWindow", "closeAllWindows", "minimizeWindow"})
               => Shown(a)']_vars

\* the stored note of window n, if there is one, has the editor's content
Flushed(n) ==
    NoteIndex(stickyNotes, noteData[n]) # 0
      => stickyNotes[NoteIndex(stickyNotes, noteData[n])].content = editor[n]

\* C11: a note window that a close path has hidden has had its editor
\* content written to its stored note, and is on its way out of the page:
\* its removal is pending until the element is gone.
C11_NoteCloseFlushesAndDestroys ==
    \A n \in Notes :
        (InDom(Cur, n) /\ n \notin active)
          => /\ Flushed(n)
             /\ Waiting(Timer("remove", n))

\* C12: when a close handler returns, the id of the window it closed is not
\* in windowLayerOrder, and as long as the window stays off the screen no
\* later step puts the id back.
C12_CloseRemovesId ==
    [][\A w \in Windows :
          /\ (/\ lastOp'[1] \in {"closeWindow", "closeNoteWindow",
                               "deleteNoteWindow", "stickerClose"}
              /\ lastOp'[2] = w)
               => getWindowId(w) \notin SeqToSet(windowLayerOrder')
          /\ (/\ ~Shown(w)
              /\ ~Shown(w)'
              /\ getWindowId(w) \notin SeqToSet(windowLayerOrder))
               => getWindowId(w) \notin SeqToSet(windowLayerOrder')]_vars

\* C13: a header gesture or a resize gesture begins only when the document
\* listeners of no other gesture are registered, so at most one is in
\* progress.
C13_OneSession ==
    [][lastOp'[1] \in {"headerMouseDown", "resizeMouseDown"}
         => (drag.win = NoValue /\ resize.win = NoValue)]_vars

\* C14: when the Escape handler has returned, no window is on screen and
\* windowLayerOrder is empty.
C14_EscapeClosesAll ==
    lastOp[1] = "closeAllWindows"
      => /\ \A w \in Windows : ~Shown(w)
         /\ windowLayerOrder = <<>>

\* C15: a step that calls closeWindow, focusWindow or bringWindowToFront
\* on a window that is off the screen and not in activeWindows changes
\* neither activeWindows, windowLayerOrder, recentlyClosedWindows nor the
\* visibility of that window.
C15_NotRegisteredNoOp ==
    [][\A w \in Windows :
          (/\ lastOp' \in {<<"closeWindow", w>>, <<"focusWindow", w>>,
                           <<"bringWindowToFront", w>>, <<"showTimer", w>>}
           /\ ~Shown(w)
           /\ dataWindow(w) \notin activeWindows)
            => /\ UNCHANGED <<activeWindows, windowLayerOrder, recentlyClosedWindows>>
               /\ ~Shown(w)']_vars

\* C16: every stored note with pinned = true is in the pinned group of
\* loadStickyNotes, and when an autosave has just written new content to a
\* pinned note, that note, the most recently updated one, is the first of
\* the group.
C16_PinnedNewestUpdateFirst ==
    [][/\ \A i \in 1..Len(stickyNotes') :
             stickyNotes'[i].pinned
               => \E j \in 1..Len(pinnedNotes(stickyNotes')) :
                     pinnedNotes(stickyNotes')[j] = stickyNotes'[i]
       /\ \A n \in Notes :
             LET before == NoteIndex(stickyNotes, noteData[n])
                 after == NoteIndex(stickyNotes', noteData[n])
             IN (/\ lastOp' = <<"autoSaveTimer", n>>
                 /\ before # 0 /\ after # 0
                 /\ stickyNotes'[after].pinned
                 /\ stickyNotes'[after].content # stickyNotes[before].content)
                  => pinnedNotes(stickyNotes')[1].id = noteData[n]]_vars

\* C17: a mousemove of a resize gesture at pointer offset (dx, dy) sets the
\* geometry from the start geometry and that offset alone.  The east, south
\* and south-east handles leave left and top as they were at the start and
\* give width = max(300, w0 + dx) and height = max(200, h0 + dy); a north or
\* south handle leaves left and width alone, an east or west handle top and
\* height.
C17_ResizeBySelectedHandle ==
    [][\A m \in GeomMoves :
          ResizeMouseMove(m[1], m[2])
            => LET r == resize
                   g == geom'[r.win]
               IN /\ r.handle \in {"e", "s", "se"}
                       => (g.left = r.startLeft /\ g.top = r.startTop)
                  /\ r.handle \in {"e", "se"}
                       => g.width = Max(300, r.startWidth + m[1])
                  /\ r.handle \in {"s", "se"}
                       => g.height = Max(200, r.startHeight + m[2])
                  /\ r.handle \in {"n", "s"}
                       => (g.left = r.startLeft /\ g.width = r.startWidth)
                  /\ r.handle \in {"e", "w"}
                       => (g.top = r.startTop /\ g.height = r.startHeight)]_vars

\* the south-east handle has been pulled from {100, 100, 300, 200} by
\* (+40, +30)
C17_Witness ==
    /\ lastOp = <<"resizeMouseMove", GeomWindow>>
    /\ resize.handle = "se"
    /\ resize.startLeft = 100 /\ resize.startTop = 100
    /\ resize.startWidth = 300 /\ resize.startHeight = 200
    /\ geom[GeomWindow] = Geom(100, 100, 340, 230)

\* C18: within a handler the registry is written first, then the layer
\* stack, then the focused flag: windowLayerOrder changes only in a step
\* that follows the registry statements of the same handler, and the focused
\* flag only in a step that follows its layer statements.
C18_RegistryLayersFocus ==
    [][/\ windowLayerOrder' # windowLayerOrder
          => lastOp[1] \in {"openWindow:registry", "focusWindow:registry",
                            "closeWindow:registry"}
       /\ focused' # focused
          => lastOp[1] \in {"openWindow:layers", "focusWindow:layers"}]_vars

\* C19: a header gesture whose pointer stays within 3 px of the mousedown
\* point on both axes never puts the window into the dragging state and
\* leaves it where it was at mousedown; a mousemove more than 3 px away on
\* some axis puts the window into the dragging state, and the window stays
\* in it until the mouseup.
C19_ClickOrDrag ==
    [][LET w == drag.win
           far == /\ lastOp'[1] = "headerMouseMove"
                  /\ \E m \in (-4..4) \X (-4..4) :
                        /\ m[1] > 3 \/ m[1] < -3 \/ m[2] > 3 \/ m[2] < -3
                        /\ HeaderMouseMove(m[1], m[2])
       IN w # NoValue =>
            /\ far => w \in dragging'
            /\ (w \notin dragging /\ ~far) =>
                  /\ w \notin dragging'
                  /\ geom'[w].left = drag.startLeft
                  /\ geom'[w].top = drag.startTop
            /\ (w \in dragging /\ lastOp'[1] # "headerMouseUp") => w \in dragging'
      ]_vars

C19_Witness ==
    /\ lastOp = <<"headerMouseMove", GeomWindow>>
    /\ GeomWindow \in dragging
    /\ drag.frame = <<3, 3>>
    /\ geom[GeomWindow].left = drag.startLeft - 4

\* C20: after the mouseup that ends a header drag the window is out of the
\* dragging state, its id is the last entry of windowLayerOrder and its
\* z-index is the one of its layer position, not the drag z-index.
C20_DragEndRestoresLayer ==
    [][(lastOp'[1] = "headerMouseUp" /\ drag.isDragging) =>
          LET w == drag.win
          IN /\ w \notin dragging'
             /\ windowLayerOrder' # <<>>
             /\ Last(windowLayerOrder') = getWindowId(w)
             /\ zIndex'[w] = baseZIndex + (Len(windowLayerOrder') - 1) * zIndexStep
      ]_vars

\* C21: recalculateWindowLayers against its reference.  With a confirmation
\* popup visible it changes nothing.  Otherwise the new order holds exactly
\* the ids of the visible windows: first those of the old order, in the old
\* order, then the ones that were missing, in document order; every visible
\* window gets z-index 100000 + 10 * its position (from 0), and the z-index
\* of a window that is not visible is left alone.
C21_RecalculateReference ==
    LET s == Cur
        r == recalculateWindowLayers(s)
        vis == {w \in Windows : Selected(s, w)}
        visIds == {getWindowId(w) : w \in vis}
        old == SelectSeq(s.order, LAMBDA id : id \in visIds)
        k == Len(old)
        docPos(id) == CHOOSE i \in 1..Len(DomSeq(s)) : getWindowId(DomSeq(s)[i]) = id
    IN IF \E n \in Notes : s.popups[n] > 0
       THEN r = s
       ELSE /\ SeqToSet(r.order) = visIds
            /\ SubSeq(r.order, 1, k) = old
            /\ \A i \in (k + 1)..Len(r.order) :
                  /\ r.order[i] \notin SeqToSet(old)
                  /\ \A j \in (i + 1)..Len(r.order) :
                        docPos(r.order[i]) < docPos(r.order[j])
            /\ \A w \in vis :
                  \E i \in 1..Len(r.order) :
                     /\ r.order[i] = getWindowId(w)
                     /\ r.z[w] = 100000 + 10 * (i - 1)
            /\ \A w \in Windows \ vis : r.z[w] = s.z[w]
            /\ [r EXCEPT !.order = s.order, !.z = s.z] = s

\* a recalculation that drops an id, appends another and renumbers
C21_Witness ==
    /\ \A n \in Notes : popups[n] = 0
    /\ \E id \in SeqToSet(windowLayerOrder) : ~Shown(WindowOf(id))
    /\ \E w \in Windows : Shown(w) /\ getWindowId(w) \notin SeqToSet(windowLayerOrder)
    /\ \E w \in Windows : Shown(w) /\ recalculateWindowLayers(Cur).z[w] # zIndex[w]

\* C22: a window that has been closed while a header gesture on it was in
\* progress stays closed at the mouseup that ends the gesture: it is not
\* shown again and its id is not put back into windowLayerOrder.
C22_ClosedStaysClosedAtMouseUp ==
    [][\A w \in Windows :
          (/\ lastOp' = <<"headerMouseUp", w>>
           /\ w \notin active
           /\ getWindowId(w) \notin SeqToSet(windowLayerOrder))
            => /\ w \notin active'
               /\ getWindowId(w) \notin SeqToSet(windowLayerOrder')]_vars

\* C23: the suppression that a closeWindow starts lasts until the timer of
\* that very close fires: as long as a cooldown timer of an application is
\* pending, the application is in recentlyClosedWindows.
C23_FullCooldown ==
    \A a \in AppNames : Waiting(Timer("cooldown", a)) => a \in recentlyClosedWindows

\* C24: a note window on which closeNoteWindow has been called is not shown
\* again, so the removal timer of a close never finds its window on screen:
\* no note window is shown while a removal timer for it is pending, and the
\* removal timer never takes a shown window out of the document.
C24_ClosedNoteNeverShown ==
    [][\A n \in Notes :
          /\ Waiting(Timer("remove", n))' => n \notin active'
          /\ lastOp' = <<"noteRemoveTimer", n>> => n \notin active]_vars

\* C25: the pinned value a note has in storage is not changed by an autosave
\* or a close of the editor window that is open on it: what the notebook
\* list has written stays.
C25_ListPinNotOverwritten ==
    [][\A n \in Notes :
          (/\ lastOp' \in {<<"autoSaveTimer", n>>, <<"closeNoteWindow", n>>}
           /\ NoteIndex(stickyNotes, noteData[n]) # 0
           /\ NoteIndex(stickyNotes', noteData[n]) # 0)
            => stickyNotes'[NoteIndex(stickyNotes', noteData[n])].pinned
                  = stickyNotes[NoteIndex(stickyNotes, noteData[n])].pinned]_vars

\* C26: a note deleted through the delete confirmation is gone from storage
\* when deleteNoteWindow returns, final autosave included, and no later step
\* stores a note under an id that is not in storage, except the creation of
\* a new note, whose id is a new time stamp: no autosave, pin toggle, close
\* or list refresh brings a deleted note back.
C26_DeletedNoteStaysDeleted ==
    [][LET ids(notes) == {notes[i].id : i \in 1..Len(notes)}
       IN /\ \A n \in Notes :
                lastOp' = <<"deleteNoteWindow", n>> => noteData[n] \notin ids(stickyNotes')
          /\ ids(stickyNotes') \subseteq ids(stickyNotes)
             \/ /\ lastOp'[1] = "createNoteWindow"
                /\ ids(stickyNotes') = ids(stickyNotes) \cup {DateNow(Nb)}]_vars

\* a note has been deleted with content in its editor
C26_Witness ==
    /\ lastOp = <<"deleteNoteWindow", "note-window-1">>
    /\ editor["note-window-1"] # ""
    /\ noteData["note-window-1"] # NoNote
    /\ stickyNotes = <<>>

\* C27: the stones alternate, the player first: the player has as many
\* stones on the board as the AI or one more, and no stone is placed while
\* the game is over.
C27_StonesAlternate ==
    [][/\ game'.player - game'.ai \in {0, 1}
       /\ game.gameOver => (game'.player <= game.player /\ game'.ai <= game.ai)]_vars

\* C28: cacheMetrics.totalSize is the sum of the sizes of the entries that
\* are in svgCache.
C28_TotalSizeIsSum ==
    LET sum[i \in 0..Len(svgCache)] ==
           IF i = 0 THEN 0 ELSE sum[i - 1] + svgCache[i].size
    IN totalSize = sum[Len(svgCache)]

\* C29: at the mouseup that ends a header drag the window is where the last
\* mousemove of the gesture put the pointer, top clamped to the task bar: a
\* position whose animation frame is still pending at mouseup is not lost.
C29_LastMoveApplied ==
    [][(/\ lastOp'[1] = "headerMouseUp"
        /\ drag.isDragging
        /\ drag.frame # NoFrame)
         => LET w == drag.win
                last == dragPosition(geom[w], drag, drag.frame[1], drag.frame[2])
            IN geom'[w].left = last.left /\ geom'[w].top = last.top]_vars

\* C30: in every reachable state the registry and the display agree: an
\* application or note window of the document is shown (carries the active
\* class) exactly when its data-window key is in activeWindows.
C30_RegistryAgreesWithActive ==
    \A w \in Apps \cup Notes :
        InDom(Cur, w) => (dataWindow(w) \in activeWindows <=> w \in active)

====
